---- MODULE Spec2Model ----
(***************************************************************************)
(* SerialManager (src/serial_manager.py): a lock-guarded, possibly absent  *)
(* serial device handle, called from several threads.                      *)
(*                                                                         *)
(* Every thread is either idle or inside one call of the public API.  A    *)
(* call is cut into steps at the points where the code can block or where  *)
(* another thread can interleave: waiting for self._lock, the test of      *)
(* self._ser, and each call into the device (open, close, enumeration).    *)
(* The checks a call makes before it touches shared state are part of the  *)
(* step that makes the call.                                               *)
(*                                                                         *)
(* App (src/GUI.py): the Tk main loop runs one handler at a time.  Only    *)
(* the main loop calls connect, disconnect and is_connected, and the scan  *)
(* workers call list_ports_blocking, which takes no lock; so a handler,    *)
(* with the SerialManager calls it makes, is one step.                     *)
(***************************************************************************)
EXTENDS Integers, Sequences, FiniteSets, TLC

\* ---------------------------------------------------------------- bounds
NumThreads == 2
MaxOpens == 2
MaxWorkers == 2
MaxTicks == 205

Threads == 1..NumThreads

\* ---------------------------------------------------------------- inputs
None == 0
NoThread == 0
Ports == {"", "COM1", "COM2"}
WriteData == {<<65, 84>>}
ReadSizes == {1}
Bytes == {7}
PortLists == {<<>>, <<"COM1">>, <<"COM1", "COM2">>, <<"COM3 ">>}

\* ------------------------------------------------ results seen by callers
\* the argument of a call: connect(port), write(data), read(n)
NoArg == [port |-> "", data |-> <<>>, n |-> 0]
PortArg(port) == [NoArg EXCEPT !.port = port]
DataArg(data) == [NoArg EXCEPT !.data = data]
SizeArg(n) == [NoArg EXCEPT !.n = n]

Pending == [exc |-> "pending", flag |-> FALSE, data |-> <<>>]
Returned == [exc |-> "", flag |-> FALSE, data |-> <<>>]
ReturnedBool(b) == [exc |-> "", flag |-> b, data |-> <<>>]
ReturnedData(s) == [exc |-> "", flag |-> FALSE, data |-> s]
Raised(e) == [exc |-> e, flag |-> FALSE, data |-> <<>>]

NoSerialError == "RuntimeError: pyserial is not installed."
EmptyPortError == "ValueError: Port is empty."
NotConnectedError == "RuntimeError: Not connected."
OpenError == "SerialException: open"
IOError == "SerialException: io"

VARIABLES
  HAS_SERIAL,   \* module flag: pyserial imported
  ser,          \* SerialManager._ser: None or the id of a handle
  lock,         \* SerialManager._lock: NoThread or the thread holding it
  handles,      \* the serial.Serial objects that exist, by id
  opens,        \* number of serial.Serial objects created so far
  pc,           \* position of each thread
  op,           \* the call a thread is in, or made last
  arg,          \* the argument of that call
  ret,          \* what that call returned or raised
  okConnects,   \* history: connects that returned normally since the last
                \* disconnect cleared the handle (counted up to 2)
  \* ---- App
  scanParam,          \* the scan_serial_ports argument App was created with
  scan_serial_ports,  \* App.scan_serial_ports
  scan_var,           \* the "Enable COM port scan" checkbox variable
  com_values,         \* com_combo["values"]
  com_var,            \* the dropdown's current entry
  com_state,          \* com_combo state: "readonly" or "disabled"
  refresh_state,      \* btn_refresh_ports state: "normal" or "disabled"
  conn_status,        \* conn_status_var: "Disconnected" or "Connected: <port>"
  btn_connect,        \* text of btn_connect
  last_box,           \* the message box shown last, "" for none
  after_queue,        \* callbacks given to self.after(0, ...), not yet run
  scanning,           \* worker threads inside list_ports_blocking
  workersStarted,     \* history: worker threads started so far
  userEnabled,        \* history: the user has ticked the scan checkbox on
  live_x,             \* App.live_x
  live_y,             \* App.live_y, in units of 1/500
  sample_index,       \* App.sample_index
  tick_label,         \* n of display_vars[0] = "Tick: n", -1 before any tick
  ticks_pending       \* on_tick callbacks scheduled and not yet run

mgrVars == <<HAS_SERIAL, ser, lock, handles, opens, okConnects>>
threadVars == <<pc, op, arg, ret>>
guiVars == <<scanParam, scan_serial_ports, scan_var, com_values, com_var, com_state,
             refresh_state, conn_status, btn_connect, last_box, after_queue,
             scanning, workersStarted, userEnabled>>
tickVars == <<live_x, live_y, sample_index, tick_label, ticks_pending>>
appVars == <<guiVars, tickVars>>

vars == <<HAS_SERIAL, ser, lock, handles, opens, pc, op, arg, ret, okConnects, appVars>>

\* ------------------------------------------------------------- the handle
\* serial.Serial(port=...) opens the port in its constructor.
NewHandle(port) ==
  [port |-> port, is_open |-> TRUE, closed |-> FALSE, closeRaised |-> FALSE]

\* self._ser is not None and getattr(self._ser, "is_open", False)
HandleOpen(s, hs) == s # None /\ hs[s].is_open

IsConnected == HandleOpen(ser, handles)

\* An object no longer referenced by self._ser is freed by the runtime; it
\* stays in the model only while close() was never called on it, that is,
\* as an open device nobody can close any more.
Collect(hs, s) ==
  [h \in {x \in DOMAIN hs : x = s \/ ~hs[x].closed} |-> hs[h]]

\* handles on which close() has not been called yet
Live == {h \in DOMAIN handles : ~handles[h].closed}

\* ---------------------------------------------------------------- guard
\* (variant: the lock is taken without waiting for its holder)
CanAcquireNoWait(t) == TRUE

\* threading.Lock is not reentrant: acquire() waits until the lock is free,
\* also when the caller itself holds it.
CanAcquire(t) == lock = NoThread

\* `with self._lock:` left, by return or by exception
Release == NoThread

LockPcs == {"ic_lock", "c_lock", "d_lock", "w_lock", "r_lock", "w_ic_lock", "r_ic_lock"}

AfterAcquire(p) ==
  CASE p = "ic_lock" -> "ic_eval"
    [] p = "c_lock" -> "c_test"
    [] p = "d_lock" -> "d_test"
    [] p = "w_lock" -> "w_ic_lock"
    [] p = "r_lock" -> "r_ic_lock"
    [] p = "w_ic_lock" -> "w_ic_eval"
    [] p = "r_ic_lock" -> "r_ic_eval"

ManagerInit ==
  /\ HAS_SERIAL \in BOOLEAN
  /\ ser = None
  /\ lock = NoThread
  /\ handles = <<>>
  /\ opens = 0
  /\ pc = [t \in Threads |-> "idle"]
  /\ op = [t \in Threads |-> "none"]
  /\ arg = [t \in Threads |-> NoArg]
  /\ ret = [t \in Threads |-> Pending]
  /\ okConnects = 0

\* ----------------------------------------------------------------- steps
\* a call is made and is now at p
Call(t, o, a, p) ==
  /\ pc[t] = "idle"
  /\ pc' = [pc EXCEPT ![t] = p]
  /\ op' = [op EXCEPT ![t] = o]
  /\ arg' = [arg EXCEPT ![t] = a]
  /\ ret' = [ret EXCEPT ![t] = Pending]
  /\ UNCHANGED appVars

\* a call is made and ends at once with result r
CallFinish(t, o, a, r) ==
  /\ pc[t] = "idle"
  /\ pc' = pc
  /\ op' = [op EXCEPT ![t] = o]
  /\ arg' = [arg EXCEPT ![t] = a]
  /\ ret' = [ret EXCEPT ![t] = r]
  /\ UNCHANGED appVars

\* a call ends: the thread is idle again and holds its result
Finish(t, r) ==
  /\ pc' = [pc EXCEPT ![t] = "idle"]
  /\ ret' = [ret EXCEPT ![t] = r]
  /\ UNCHANGED <<op, arg, appVars>>

Goto(t, p) ==
  /\ pc' = [pc EXCEPT ![t] = p]
  /\ UNCHANGED <<op, arg, ret, appVars>>

\* `with self._lock:` entered
Acquire(t) ==
  /\ pc[t] \in LockPcs
  /\ CanAcquire(t)
  /\ lock' = t
  /\ Goto(t, AfterAcquire(pc[t]))
  /\ UNCHANGED <<HAS_SERIAL, ser, handles, opens, okConnects>>

\* --------------------------------------------------------- is_connected
CallIsConnected(t) ==
  /\ Call(t, "is_connected", NoArg, "ic_lock")
  /\ UNCHANGED <<HAS_SERIAL, ser, lock, handles, opens, okConnects>>

\* What self._ser.read(n) can return: up to n bytes, fewer on timeout.
RECURSIVE SeqsUpTo(_)
SeqsUpTo(n) ==
  IF n = 0 THEN {<<>>}
  ELSE SeqsUpTo(n - 1) \cup
       {Append(s, b) : s \in {q \in SeqsUpTo(n - 1) : Len(q) = n - 1}, b \in Bytes}

\* The rest of write/read once `self.is_connected` has given v: raise
\* "Not connected." or call the device, which returns or raises.
IOResults(t, v) ==
  IF ~v THEN {Raised(NotConnectedError)}
  ELSE IF op[t] = "write" THEN {Returned, Raised(IOError)}
  ELSE {ReturnedData(s) : s \in SeqsUpTo(arg[t].n)} \cup {Raised(IOError)}

\* The body of the is_connected property, reached with the lock taken:
\* directly (ic_eval) or from inside write/read (w_ic_eval, r_ic_eval).
IsConnectedEval(t) ==
  /\ pc[t] \in {"ic_eval", "w_ic_eval", "r_ic_eval"}
  /\ lock' = Release
  /\ IF pc[t] = "ic_eval"
       THEN Finish(t, ReturnedBool(IsConnected))
       ELSE \E r \in IOResults(t, IsConnected) : Finish(t, r)
  /\ UNCHANGED <<HAS_SERIAL, ser, handles, opens, okConnects>>

\* ---------------------------------------------------------- write, read
CallWrite(t, data) ==
  /\ Call(t, "write", DataArg(data), "w_lock")
  /\ UNCHANGED <<HAS_SERIAL, ser, lock, handles, opens, okConnects>>

CallRead(t, n) ==
  /\ Call(t, "read", SizeArg(n), "r_lock")
  /\ UNCHANGED <<HAS_SERIAL, ser, lock, handles, opens, okConnects>>

\* --------------------------------------------------------------- connect
\* (variant: the empty port is not rejected)
ConnectPrecheckNoEmpty(has, port) == IF ~has THEN NoSerialError ELSE ""

\* (variant: the capability is not checked)
ConnectPrecheckNoCapability(has, port) == IF port = "" THEN EmptyPortError ELSE ""

\* The two checks made before the lock is taken.
ConnectPrecheck(has, port) ==
  IF ~has THEN NoSerialError
  ELSE IF port = "" THEN EmptyPortError
  ELSE ""

CallConnect(t, port) ==
  /\ LET e == ConnectPrecheck(HAS_SERIAL, port)
     IN IF e # "" THEN CallFinish(t, "connect", PortArg(port), Raised(e))
        ELSE Call(t, "connect", PortArg(port), "c_lock")
  /\ UNCHANGED <<HAS_SERIAL, ser, lock, handles, opens, okConnects>>

\* (variant: connect opens without looking at the stored handle)
NeverConnected == FALSE

\* if self._ser is not None and getattr(self._ser, "is_open", False): return
AlreadyConnected == HandleOpen(ser, handles)

CountConnect == IF okConnects < 2 THEN okConnects + 1 ELSE okConnects

ConnectTest(t) ==
  /\ pc[t] = "c_test"
  /\ IF AlreadyConnected
       THEN /\ Finish(t, Returned)
            /\ lock' = Release
            /\ okConnects' = CountConnect
       ELSE /\ Goto(t, "c_open")
            /\ UNCHANGED <<lock, okConnects>>
  /\ UNCHANGED <<HAS_SERIAL, ser, handles, opens>>

\* self._ser = serial.Serial(port=port, ...): the device open returns a new
\* open handle, which is stored in place of what self._ser held.
ConnectOpenOk(t) ==
  /\ pc[t] = "c_open"
  /\ opens < MaxOpens
  /\ opens' = opens + 1
  /\ ser' = opens + 1
  /\ handles' = Collect([h \in DOMAIN handles \cup {opens + 1} |->
                           IF h = opens + 1 THEN NewHandle(arg[t].port) ELSE handles[h]],
                        opens + 1)
  /\ lock' = Release
  /\ Finish(t, Returned)
  /\ okConnects' = CountConnect
  /\ UNCHANGED HAS_SERIAL

\* what self._ser holds after serial.Serial(...) raised: the assignment
\* never ran
SerAfterFailedOpen == ser

\* (variant: the lock stays taken when the open raises)
KeepLockOnRaise == lock

\* the exception leaves the `with self._lock:` block, which releases
ReleaseOnRaise == NoThread

\* ... or the device open raises, and the error goes to the caller.
ConnectOpenFail(t) ==
  /\ pc[t] = "c_open"
  /\ ser' = SerAfterFailedOpen
  /\ lock' = ReleaseOnRaise
  /\ Finish(t, Raised(OpenError))
  /\ UNCHANGED <<HAS_SERIAL, handles, opens, okConnects>>

\* ------------------------------------------------------------ disconnect
CallDisconnect(t) ==
  /\ Call(t, "disconnect", NoArg, "d_lock")
  /\ UNCHANGED <<HAS_SERIAL, ser, lock, handles, opens, okConnects>>

\* (variant: the handle is dropped without close())
NeverClose == FALSE

\* if self._ser is not None: close it first
NeedsClose == ser # None

DisconnectTest(t) ==
  /\ pc[t] = "d_test"
  /\ Goto(t, IF NeedsClose THEN "d_close" ELSE "d_clear")
  /\ UNCHANGED <<HAS_SERIAL, ser, lock, handles, opens, okConnects>>

\* self._ser.close() returns: the handle is closed.
CloseOk(h) == [h EXCEPT !.is_open = FALSE, !.closed = TRUE]

\* self._ser.close() raises: the error is swallowed; the handle object may
\* or may not have got as far as marking itself closed.
CloseRaise(h, stillOpen) ==
  [h EXCEPT !.is_open = stillOpen, !.closed = TRUE, !.closeRaised = TRUE]

CloseOutcomes(h) == {CloseOk(h)} \cup {CloseRaise(h, b) : b \in BOOLEAN}

DisconnectClose(t) ==
  /\ pc[t] = "d_close"
  /\ \E h \in CloseOutcomes(handles[ser]) : handles' = [handles EXCEPT ![ser] = h]
  /\ Goto(t, "d_clear")
  /\ UNCHANGED <<HAS_SERIAL, ser, lock, opens, okConnects>>

\* (variant: the closed handle stays stored)
KeptSer == ser

\* (variant: the handle is cleared only when close() returned)
ClearedUnlessCloseRaised ==
  IF ser # None /\ handles[ser].closeRaised THEN ser ELSE None

\* self._ser = None
ClearedSer == None

DisconnectClear(t) ==
  /\ pc[t] = "d_clear"
  /\ ser' = ClearedSer
  /\ handles' = Collect(handles, ser')
  /\ lock' = Release
  /\ Finish(t, Returned)
  /\ okConnects' = 0
  /\ UNCHANGED <<HAS_SERIAL, opens>>

\* --------------------------------------------------- list_ports_blocking
CallListPorts(t) ==
  /\ IF ~HAS_SERIAL
       THEN CallFinish(t, "list_ports_blocking", NoArg, ReturnedData(<<>>))
       ELSE Call(t, "list_ports_blocking", NoArg, "lp_enum")
  /\ UNCHANGED <<HAS_SERIAL, ser, lock, handles, opens, okConnects>>

\* (variant: the enumeration waits for the lock like the other methods)
EnumNeedsGuard(t) == lock = NoThread

\* list_ports_blocking has no `with self._lock:`: nothing holds it back
EnumCanRun(t) == TRUE

\* list_ports.comports() returns the attached ports, or raises
EnumOutcomes ==
  {[raised |-> FALSE, ports |-> p] : p \in PortLists} \cup {[raised |-> TRUE, ports |-> <<>>]}

\* [p.device for p in list_ports.comports()]
ListPortsEnum(t) ==
  /\ pc[t] = "lp_enum"
  /\ EnumCanRun(t)
  /\ \E o \in EnumOutcomes :
       IF o.raised THEN Goto(t, "lp_except") ELSE Finish(t, ReturnedData(o.ports))
  /\ UNCHANGED <<HAS_SERIAL, ser, lock, handles, opens, okConnects>>

\* (variant: the enumeration error goes to the caller)
ExceptPropagates == Raised("Exception: comports")

\* except Exception: return []
ExceptResult == ReturnedData(<<>>)

ListPortsExcept(t) ==
  /\ pc[t] = "lp_except"
  /\ Finish(t, ExceptResult)
  /\ UNCHANGED <<HAS_SERIAL, ser, lock, handles, opens, okConnects>>

\* ------------------------------------------------------------------- App
\* the Tk main loop; its SerialManager calls are recorded as this thread's
GuiThread == 1

ScanDisabledEntry == "(scan disabled)"
NoSerialEntry == "(pyserial not installed)"
NoneEntry == "(none)"
ScanningEntry == "Scanning..."

Disconnected == [text |-> "Disconnected", port |-> ""]
ConnectedTo(port) == [text |-> "Connected", port |-> port]

\* str.strip(); of the names in PortLists only "COM3 " has whitespace around it
Strip(s) == IF s = "COM3 " THEN "COM3" ELSE s

\* str.startswith("("), over the entries the dropdown can hold
StartsWithParen(s) == s \in {ScanDisabledEntry, NoSerialEntry, NoneEntry}

\* _set_com_ports: self.com_var.set(ports[0] if ports else "")
FirstOrEmpty(ports) == IF ports # <<>> THEN ports[1] ELSE ""

\* _apply_scan_state: the states given to the Refresh button and the dropdown
ApplyScanState(enabled, has) ==
  IF ~has THEN [refresh |-> "disabled", combo |-> "disabled"]
  ELSE [refresh |-> IF enabled THEN "normal" ELSE "disabled",
        combo |-> IF enabled THEN "readonly" ELSE "disabled"]

\* _apply_scan_state: the dropdown entries it leaves, given the ones before
ApplyScanPorts(has, ports) == IF ~has THEN <<NoSerialEntry>> ELSE ports

\* refresh_com_ports: a worker thread is started
RefreshStartsWorker(flag, has) == flag /\ has

\* refresh_com_ports: the dropdown entries it sets
RefreshPorts(flag, has) ==
  IF ~flag THEN <<ScanDisabledEntry>>
  ELSE IF ~has THEN <<NoSerialEntry>>
  ELSE <<ScanningEntry>>

\* (variant: the constructor argument is ignored, the default True is used)
InitScanFlagDefault(p) == TRUE

\* self.scan_serial_ports = bool(scan_serial_ports)
InitScanFlag(p) == p

RefreshCallback == [fn |-> "refresh_com_ports", ports |-> <<>>]
SetPortsCallback(ports) == [fn |-> "_set_com_ports", ports |-> ports]

\* the dropdown after _build_setup_tab: the combobox is created empty, then
\* _apply_scan_state, then the scan is scheduled or the placeholder set
BuildSetupPorts(enabled, has) ==
  IF enabled THEN ApplyScanPorts(has, <<>>) ELSE <<ScanDisabledEntry>>

\* the state App.__init__ leaves
AppInit(p) ==
  /\ scanParam = p
  /\ scan_serial_ports = InitScanFlag(p)
  /\ scan_var = InitScanFlag(p)
  /\ com_values = BuildSetupPorts(InitScanFlag(p), HAS_SERIAL)
  /\ com_var = FirstOrEmpty(BuildSetupPorts(InitScanFlag(p), HAS_SERIAL))
  /\ com_state = ApplyScanState(InitScanFlag(p), HAS_SERIAL).combo
  /\ refresh_state = ApplyScanState(InitScanFlag(p), HAS_SERIAL).refresh
  /\ conn_status = Disconnected
  /\ btn_connect = "Connect"
  /\ last_box = ""
  /\ after_queue = IF InitScanFlag(p) THEN <<RefreshCallback>> ELSE <<>>
  /\ scanning = 0
  /\ workersStarted = 0
  /\ userEnabled = FALSE
  /\ live_x = <<>>
  /\ live_y = <<>>
  /\ sample_index = 0
  /\ tick_label = -1
  /\ ticks_pending = 1

\* main.py: App(tick_ms=25, scan_serial_ports=False)
Init == ManagerInit /\ AppInit(FALSE)

\* App(scan_serial_ports=...) with either value
GuiInit == ManagerInit /\ \E p \in BOOLEAN : AppInit(p)

\* refresh_com_ports, as a button command or as an after callback
RefreshComPorts ==
  /\ RefreshStartsWorker(scan_serial_ports, HAS_SERIAL) => workersStarted < MaxWorkers
  /\ com_values' = RefreshPorts(scan_serial_ports, HAS_SERIAL)
  /\ com_var' = FirstOrEmpty(com_values')
  /\ scanning' = IF RefreshStartsWorker(scan_serial_ports, HAS_SERIAL)
                   THEN scanning + 1 ELSE scanning
  /\ workersStarted' = IF RefreshStartsWorker(scan_serial_ports, HAS_SERIAL)
                         THEN workersStarted + 1 ELSE workersStarted

\* the user presses Refresh
ClickRefresh ==
  /\ refresh_state = "normal"
  /\ RefreshComPorts
  /\ UNCHANGED <<scanParam, scan_serial_ports, scan_var, com_state, refresh_state,
                 conn_status, btn_connect, last_box, after_queue, userEnabled>>
  /\ UNCHANGED <<mgrVars, threadVars, tickVars>>

\* the user clicks the scan checkbox: the variable flips, then _on_scan_toggle
OnScanToggle ==
  LET enabled == ~scan_var
      starts == enabled /\ RefreshStartsWorker(enabled, HAS_SERIAL)
      applied == ApplyScanPorts(HAS_SERIAL, com_values)
  IN /\ starts => workersStarted < MaxWorkers
     /\ scan_var' = enabled
     /\ scan_serial_ports' = enabled
     /\ com_state' = ApplyScanState(enabled, HAS_SERIAL).combo
     /\ refresh_state' = ApplyScanState(enabled, HAS_SERIAL).refresh
     /\ com_values' = IF enabled THEN RefreshPorts(enabled, HAS_SERIAL)
                      ELSE <<ScanDisabledEntry>>
     /\ com_var' = FirstOrEmpty(com_values')
     /\ scanning' = IF starts THEN scanning + 1 ELSE scanning
     /\ workersStarted' = IF starts THEN workersStarted + 1 ELSE workersStarted
     /\ userEnabled' = (userEnabled \/ enabled)
     /\ UNCHANGED <<scanParam, conn_status, btn_connect, last_box, after_queue>>
     /\ UNCHANGED <<mgrVars, threadVars, tickVars>>

\* the user picks an entry of the dropdown
SelectPort(entry) ==
  /\ com_state = "readonly"
  /\ \E i \in 1..Len(com_values) : com_values[i] = entry
  /\ com_var # entry
  /\ com_var' = entry
  /\ UNCHANGED <<scanParam, scan_serial_ports, scan_var, com_values, com_state,
                 refresh_state, conn_status, btn_connect, last_box, after_queue,
                 scanning, workersStarted, userEnabled>>
  /\ UNCHANGED <<mgrVars, threadVars, tickVars>>

\* worker(): list_ports_blocking() returns, "(none)" stands for no ports,
\* and the result is handed to the main loop with self.after(0, ...)
WorkerPorts(o) ==
  LET ports == IF o.raised THEN ExceptResult.data ELSE o.ports
  IN IF ports = <<>> THEN <<NoneEntry>> ELSE ports

WorkerFinish ==
  /\ scanning > 0
  /\ scanning' = scanning - 1
  /\ \E o \in EnumOutcomes :
       after_queue' = Append(after_queue, SetPortsCallback(WorkerPorts(o)))
  /\ UNCHANGED <<scanParam, scan_serial_ports, scan_var, com_values, com_var, com_state,
                 refresh_state, conn_status, btn_connect, last_box, workersStarted,
                 userEnabled>>
  /\ UNCHANGED <<mgrVars, threadVars, tickVars>>

\* the main loop runs the oldest after(0, ...) callback
RunAfter ==
  /\ after_queue # <<>>
  /\ after_queue' = Tail(after_queue)
  /\ IF Head(after_queue).fn = "refresh_com_ports"
       THEN RefreshComPorts
       ELSE /\ com_values' = Head(after_queue).ports
            /\ com_var' = FirstOrEmpty(com_values')
            /\ UNCHANGED <<scanning, workersStarted>>
  /\ UNCHANGED <<scanParam, scan_serial_ports, scan_var, com_state, refresh_state,
                 conn_status, btn_connect, last_box, userEnabled>>
  /\ UNCHANGED <<mgrVars, threadVars, tickVars>>

\* the SerialManager call the main loop made last, and its result
GuiCalled(o, a, r) ==
  /\ op' = [op EXCEPT ![GuiThread] = o]
  /\ arg' = [arg EXCEPT ![GuiThread] = a]
  /\ ret' = [ret EXCEPT ![GuiThread] = r]
  /\ pc' = pc

\* (variant: the status line is not reset by _disconnect)
StatusKept == conn_status

\* _disconnect: self.conn_status_var.set("Disconnected")
StatusAfterDisconnect == Disconnected

\* _disconnect: serial_mgr.disconnect() with the lock free, then the display
GuiDisconnect ==
  /\ \E h \in (IF NeedsClose THEN CloseOutcomes(handles[ser]) ELSE {NewHandle("")}) :
       handles' = Collect(IF NeedsClose THEN [handles EXCEPT ![ser] = h] ELSE handles,
                          ClearedSer)
  /\ ser' = ClearedSer
  /\ okConnects' = 0
  /\ GuiCalled("disconnect", NoArg, Returned)
  /\ conn_status' = StatusAfterDisconnect
  /\ btn_connect' = "Connect"
  /\ UNCHANGED <<HAS_SERIAL, lock, opens, last_box>>

NoSerialBox == "pyserial is not installed, cannot connect."
SelectPortBox == "Select a valid COM port first."
FailedBox == "Failed to connect"

\* _connect found nothing to connect to: a warning box, nothing else
GuiWarn(box) ==
  /\ last_box' = box
  /\ UNCHANGED <<mgrVars, threadVars, conn_status, btn_connect>>

\* _connect: `not port or port.startswith("(")`
NotAPort(port) == port = "" \/ StartsWithParen(port)

\* _connect: serial_mgr.connect(port) with the lock free; on return the
\* display says connected, on an exception an error box is shown
GuiConnect(port) ==
  LET e == ConnectPrecheck(HAS_SERIAL, port)
  IN IF e # ""
       THEN /\ GuiCalled("connect", PortArg(port), Raised(e))
            /\ last_box' = FailedBox
            /\ UNCHANGED <<mgrVars, conn_status, btn_connect>>
     ELSE IF AlreadyConnected
       THEN /\ GuiCalled("connect", PortArg(port), Returned)
            /\ okConnects' = CountConnect
            /\ conn_status' = ConnectedTo(port)
            /\ btn_connect' = "Disconnect"
            /\ UNCHANGED <<HAS_SERIAL, ser, lock, handles, opens, last_box>>
     ELSE \E opened \in {b \in BOOLEAN : b => opens < MaxOpens} :
       IF opened
         THEN /\ opens' = opens + 1
              /\ ser' = opens + 1
              /\ handles' = Collect([h \in DOMAIN handles \cup {opens + 1} |->
                                       IF h = opens + 1 THEN NewHandle(port)
                                       ELSE handles[h]],
                                    opens + 1)
              /\ okConnects' = CountConnect
              /\ GuiCalled("connect", PortArg(port), Returned)
              /\ conn_status' = ConnectedTo(port)
              /\ btn_connect' = "Disconnect"
              /\ UNCHANGED <<HAS_SERIAL, lock, last_box>>
         ELSE /\ ser' = SerAfterFailedOpen
              /\ GuiCalled("connect", PortArg(port), Raised(OpenError))
              /\ last_box' = FailedBox
              /\ UNCHANGED <<HAS_SERIAL, lock, handles, opens, okConnects,
                             conn_status, btn_connect>>

\* the user presses the Connect / Disconnect button: toggle_connect
ClickConnect ==
  /\ IF IsConnected THEN GuiDisconnect
     ELSE IF ~HAS_SERIAL THEN GuiWarn(NoSerialBox)
     ELSE IF NotAPort(Strip(com_var)) THEN GuiWarn(SelectPortBox)
     ELSE GuiConnect(Strip(com_var))
  /\ UNCHANGED <<scanParam, scan_serial_ports, scan_var, com_values, com_var, com_state,
                 refresh_state, after_queue, scanning, workersStarted, userEnabled>>
  /\ UNCHANGED tickVars

GuiNext ==
  \/ OnScanToggle
  \/ ClickRefresh
  \/ \E entry \in {"COM1", "COM2", "COM3 "} : SelectPort(entry)
  \/ WorkerFinish
  \/ RunAfter
  \/ ClickConnect

GuiSpec == GuiInit /\ [][GuiNext]_vars

\* ------------------------------------------------------------------ tick
N == 200

\* _fake_measurement: a + 0.2 * b with a = (i % 50) / 50 and
\* b = ((i * 7) % 100) / 100, in units of 1/500
FakeMeasurement(i) == 10 * (i % 50) + ((i * 7) % 100)

\* (variant: the oldest n entries are kept, s[:n])
FirstN(s, n) == IF Len(s) > n THEN SubSeq(s, 1, n) ELSE s

\* s[-n:]
LastN(s, n) == IF Len(s) > n THEN SubSeq(s, Len(s) - n + 1, Len(s)) ELSE s

OnTick ==
  /\ ticks_pending > 0
  /\ sample_index < MaxTicks
  /\ tick_label' = sample_index
  /\ LET xs == Append(live_x, sample_index)
         ys == Append(live_y, FakeMeasurement(sample_index))
     IN /\ live_x' = IF Len(xs) > N THEN LastN(xs, N) ELSE xs
        /\ live_y' = IF Len(xs) > N THEN LastN(ys, N) ELSE ys
  /\ sample_index' = sample_index + 1
  /\ ticks_pending' = ticks_pending - 1 + 1
  /\ UNCHANGED <<mgrVars, threadVars, guiVars>>

TickSpec == Init /\ [][OnTick]_vars

\* ------------------------------------------------------------------ Next
\* the steps of a thread inside a call
Step(t) ==
  \/ Acquire(t)
  \/ IsConnectedEval(t)
  \/ ConnectTest(t)
  \/ ConnectOpenOk(t)
  \/ ConnectOpenFail(t)
  \/ DisconnectTest(t)
  \/ DisconnectClose(t)
  \/ DisconnectClear(t)
  \/ ListPortsEnum(t)
  \/ ListPortsExcept(t)

Next ==
  \E t \in Threads :
    \/ CallIsConnected(t)
    \/ \E port \in Ports : CallConnect(t, port)
    \/ CallDisconnect(t)
    \/ CallListPorts(t)
    \/ \E data \in WriteData : CallWrite(t, data)
    \/ \E n \in ReadSizes : CallRead(t, n)
    \/ Step(t)

Spec == Init /\ [][Next]_vars

\* Threads are scheduled fairly: a thread inside a call keeps running, and a
\* thread waiting for the lock gets it if the lock keeps becoming free.
FairSpec ==
  /\ Spec
  /\ \A t \in Threads : WF_vars(Step(t)) /\ SF_vars(Acquire(t))

\* ======================================================================
\* Properties
\* ======================================================================

\* thread t is inside a write or read call
InIO(t) == op[t] \in {"write", "read"} /\ ret[t] = Pending

\* C1: when a disconnect returns, is_connected is false, and a read or
\* write made while the handle is absent ends by raising "Not connected."
\* (unless some connect stores a handle first).
C1_IOAfterDisconnectRaisesNotConnected ==
  /\ [][\A t \in Threads :
          (op[t] = "disconnect" /\ pc[t] # "idle" /\ pc'[t] = "idle") => ~IsConnected']_vars
  /\ \A t \in Threads :
       (InIO(t) /\ ser = None) ~> (ret[t] = Raised(NotConnectedError) \/ ser # None)

\* C2: a write or read made after a successful connect hands the call to
\* the open handle and ends with what the device gives, not with
\* "Not connected." (unless a disconnect comes first).
C2_IOWhileConnectedReachesDevice ==
  \A t \in Threads :
    (InIO(t) /\ IsConnected /\ okConnects >= 1)
      ~> (ret[t].exc \in {"", IOError} \/ ~IsConnected)

\* C3: every call ends, the lock is free whenever no call is in progress, and
\* no thread holds the lock once its call has ended.
C3_EveryCallEndsAndReleases ==
  /\ []((\A t \in Threads : pc[t] = "idle") => lock = NoThread)
  /\ [](\A t \in Threads : pc[t] = "idle" => lock # t)
  /\ \A t \in Threads : (pc[t] # "idle") ~> (pc[t] = "idle")

\* thread t takes a step of its own call
Moves(t) == pc'[t] # pc[t]

\* thread t makes a call in this step
Calls(t) ==
  pc[t] = "idle" /\ (pc'[t] # "idle" \/ <<op[t], arg[t], ret[t]>>' # <<op[t], arg[t], ret[t]>>)

\* C4 as stated: connect("") raises ValueError whether or not pyserial is
\* available.
C4_EmptyPortAlwaysValueError ==
  \A t \in Threads :
    (op[t] = "connect" /\ arg[t].port = "" /\ ret[t] # Pending)
      => ret[t] = Raised(EmptyPortError)

\* C4, amended: connect("") ends at once, raising ValueError when pyserial is
\* available and the "pyserial is not installed" RuntimeError when it is
\* not; either way the handle, the device and the lock are left as they were.
C4_EmptyPortRejected ==
  [][\A t \in Threads :
       (Calls(t) /\ op'[t] = "connect" /\ arg'[t].port = "")
         => /\ pc'[t] = "idle"
            /\ ret'[t] = Raised(IF HAS_SERIAL THEN EmptyPortError ELSE NoSerialError)
            /\ UNCHANGED <<ser, handles, opens, lock>>]_vars

C4_Witness ==
  \E t \in Threads :
    /\ op[t] = "connect" /\ arg[t].port = "" /\ ret[t] = Raised(EmptyPortError)
    /\ IsConnected

\* C5: without pyserial every connect raises the "pyserial is not installed"
\* RuntimeError, list_ports_blocking returns [], is_connected is false, and
\* no thread is ever inside a device open or a port enumeration.
C5_NoCapabilityNoDeviceAccess ==
  ~HAS_SERIAL =>
    /\ \A t \in Threads :
         /\ op[t] = "connect" => ret[t] = Raised(NoSerialError)
         /\ op[t] = "list_ports_blocking" => ret[t] = ReturnedData(<<>>)
         /\ (op[t] = "is_connected" /\ ret[t] # Pending) => ret[t] = ReturnedBool(FALSE)
         /\ pc[t] \notin {"c_lock", "c_test", "c_open", "lp_enum"}
    /\ ~IsConnected
    /\ ser = None
    /\ opens = 0

C5_Witness ==
  /\ ~HAS_SERIAL
  /\ \E t, u \in Threads :
       /\ op[t] = "connect" /\ arg[t].port = "COM1" /\ ret[t] = Raised(NoSerialError)
       /\ op[u] = "list_ports_blocking" /\ ret[u] = ReturnedData(<<>>)

\* C6: once a connect has returned normally and no disconnect has cleared
\* the handle since, a further connect returns normally without opening a
\* device and leaves the stored handle as it is; until a disconnect starts
\* closing it, that handle is the only live one and is open.
C6_ConnectIdempotent ==
  [][/\ (okConnects' >= 1 /\ \A t \in Threads : pc'[t] \notin {"d_close", "d_clear"})
          => (IsConnected' /\ Live' = {ser'})
     /\ \A t \in Threads :
          (pc[t] = "c_test" /\ Moves(t) /\ okConnects >= 1)
            => /\ pc'[t] = "idle"
               /\ ret'[t] = Returned
               /\ okConnects' = 2
               /\ UNCHANGED <<ser, handles, opens>>]_vars

C6_Witness ==
  /\ okConnects = 2
  /\ opens = 1
  /\ IsConnected
  /\ \A t \in Threads : op[t] = "connect" /\ ret[t] = Returned

\* C7: at most one handle is live (opened, close() not yet called on it) at
\* any time, and a live handle is the one stored in self._ser.
C7_AtMostOneLiveHandle ==
  /\ Cardinality(Live) <= 1
  /\ Live \subseteq {ser}

C7_Witness ==
  \E t, u \in Threads :
    /\ t # u
    /\ op[t] = "connect" /\ ret[t] = Returned
    /\ pc[u] = "c_test"
    /\ Live = {ser}
    /\ opens = 2

\* C8: whenever the lock is free, self._ser is None or an open handle on
\* which close() was never called.
C8_HandleAbsentOrOpen ==
  lock = NoThread => (ser = None \/ (handles[ser].is_open /\ ~handles[ser].closed))

C8_Witness ==
  /\ lock = NoThread
  /\ IsConnected
  /\ opens = 2
  /\ \E t \in Threads : ret[t] = Raised(OpenError)

\* thread t is between taking and releasing the lock: at the test of
\* self._ser or inside a device call
InCritical(t) ==
  pc[t] \in {"ic_eval", "w_ic_eval", "r_ic_eval", "c_test", "c_open",
             "d_test", "d_close", "d_clear"}

\* C9: at most one thread at a time is at the handle test or inside a
\* device open, close, read or write, and that thread holds the lock.
C9_DeviceCallsExclusive ==
  \A t, u \in Threads :
    InCritical(t) => (lock = t /\ (InCritical(u) => u = t))

C9_Witness ==
  \E t, u \in Threads :
    /\ pc[t] = "d_close"
    /\ pc[u] \in {"c_lock", "w_lock", "r_lock"}

\* C10: when the device open raises in a connect made while disconnected,
\* the call ends with that error, no handle is stored, is_connected stays
\* false and the lock is free.
C10_FailedOpenLeavesDisconnected ==
  [][\A t \in Threads :
       (pc[t] = "c_open" /\ Moves(t) /\ opens' = opens /\ ~IsConnected)
         => /\ pc'[t] = "idle"
            /\ ret'[t] = Raised(OpenError)
            /\ ser' = None
            /\ handles' = handles
            /\ ~IsConnected'
            /\ lock' = NoThread]_vars

C10_Witness ==
  /\ lock = NoThread
  /\ ser = None
  /\ \E t, u \in Threads :
       /\ op[t] = "connect" /\ ret[t] = Raised(OpenError)
       /\ pc[u] = "c_lock"

\* C11: disconnect never raises and always ends with self._ser = None: with
\* no handle stored it closes nothing, and when close() raised the handle
\* is cleared all the same.
C11_DisconnectAlwaysClears ==
  [][\A t \in Threads :
       /\ (pc[t] = "d_test" /\ Moves(t) /\ ser = None)
            => (pc'[t] = "d_clear" /\ UNCHANGED <<ser, handles, opens>>)
       /\ (pc[t] = "d_close" /\ Moves(t)) => (pc'[t] = "d_clear" /\ ret'[t] = Pending)
       /\ (pc[t] = "d_clear" /\ Moves(t))
            => /\ pc'[t] = "idle"
               /\ ret'[t] = Returned
               /\ ser' = None
               /\ ~IsConnected'
               /\ lock' = NoThread]_vars

C11_Witness ==
  \E t \in Threads :
    /\ pc[t] = "d_clear"
    /\ ser # None
    /\ handles[ser].closeRaised
    /\ handles[ser].is_open

\* C12: list_ports_blocking never raises, returns [] when the enumeration
\* raised, and leaves the handle, the device and the lock as they were.
C12_ListPortsNeverRaises ==
  [][\A t \in Threads :
       ((Calls(t) /\ op'[t] = "list_ports_blocking")
          \/ (Moves(t) /\ op[t] = "list_ports_blocking"))
         => /\ UNCHANGED <<ser, handles, opens, lock>>
            /\ IsConnected' = IsConnected
            /\ ret'[t].exc \in {"", "pending"}
            /\ pc[t] = "lp_except" => (pc'[t] = "idle" /\ ret'[t] = ReturnedData(<<>>))]_vars

C12_Witness ==
  \E t \in Threads :
    /\ pc[t] = "lp_except"
    /\ IsConnected

\* C14: a connect to another port made while connected returns normally
\* without opening anything: the stored handle is the same object, still
\* open on the port it was opened on.
C14_ConnectOtherPortKeepsHandle ==
  [][\A t \in Threads :
       (pc[t] = "c_test" /\ Moves(t) /\ IsConnected /\ arg[t].port # handles[ser].port)
         => /\ pc'[t] = "idle"
            /\ ret'[t] = Returned
            /\ ser' = ser
            /\ opens' = opens
            /\ handles' = handles
            /\ handles'[ser'].port # arg[t].port
            /\ IsConnected']_vars

C14_Witness ==
  \E t \in Threads :
    /\ op[t] = "connect" /\ arg[t].port = "COM2" /\ ret[t] = Returned
    /\ IsConnected
    /\ handles[ser].port = "COM1"
    /\ opens = 1

\* C15: a read or write changes neither self._ser nor the handle, and once
\* it holds the lock it ends (returning bytes, possibly none, or raising)
\* with the lock released.
C15_IOLeavesConnectionAsItWas ==
  /\ [][\A t \in Threads :
          (op[t] \in {"write", "read"} /\ Moves(t)) => UNCHANGED <<ser, handles, opens>>]_vars
  /\ \A t \in Threads :
       (pc[t] \in {"w_ic_lock", "r_ic_lock"}) ~> (pc[t] = "idle" /\ lock # t)

\* C16: a thread inside list_ports_blocking never holds the lock, and its
\* enumeration can complete whoever holds the lock.
C16_ListPortsNeverTakesGuard ==
  \A t \in Threads :
    pc[t] \in {"lp_enum", "lp_except"}
      => (lock # t /\ ENABLED (ListPortsEnum(t) \/ ListPortsExcept(t)))

C16_Witness ==
  \E t, u \in Threads :
    /\ pc[t] = "lp_enum"
    /\ lock = u
    /\ pc[u] \in {"c_open", "d_close"}


\* ---------------------------------------------------------------------
\* C13: an App created with scan_serial_ports=False starts no COM port
\* enumeration, and has none running or waiting to be shown, until the user
\* ticks the scan checkbox on; and no handler that ends with the scan flag
\* false starts one.
C13_NoEnumerationWhileScanOff ==
  [][/\ (~scanParam /\ ~userEnabled)
          => (~scan_serial_ports /\ workersStarted = 0 /\ scanning = 0 /\ after_queue = <<>>)
     /\ (~scanParam /\ ~userEnabled')
          => (~scan_serial_ports' /\ workersStarted' = 0 /\ scanning' = 0
              /\ after_queue' = <<>>)
     /\ ~scan_serial_ports' => workersStarted' = workersStarted]_vars

\* created with scanning off on a machine with pyserial, the user has pressed
\* Connect, and nothing has been enumerated
C13_Witness ==
  /\ ~scanParam
  /\ ~userEnabled
  /\ HAS_SERIAL
  /\ last_box = SelectPortBox
  /\ workersStarted = 0
  /\ com_values = <<ScanDisabledEntry>>

\* ---------------------------------------------------------------------
Placeholders == {ScanDisabledEntry, NoSerialEntry, NoneEntry, ScanningEntry}

\* C17: the port the GUI passes to SerialManager.connect is never one of the
\* placeholder entries "(scan disabled)", "(pyserial not installed)",
\* "(none)", "Scanning...".
C17_NeverConnectsToPlaceholder ==
  op[GuiThread] = "connect" => arg[GuiThread].port \notin Placeholders

\* ---------------------------------------------------------------------
\* C18: when scanning is disabled and the GUI is idle (no scan worker is
\* running and no callback waits), the dropdown holds only "(scan disabled)".
C18_ScanOffShowsPlaceholder ==
  (~scan_serial_ports /\ scanning = 0 /\ after_queue = <<>>)
    => (com_values = <<ScanDisabledEntry>> /\ com_var = ScanDisabledEntry)

\* ---------------------------------------------------------------------
\* C19: between handlers the display agrees with the manager: the status is
\* "Connected: <port>" and the button reads "Disconnect" exactly when the
\* manager holds an open handle, opened on <port>; otherwise the status is
\* "Disconnected" and the button reads "Connect", also after a failed connect.
C19_DisplayAgreesWithManager ==
  /\ IsConnected => /\ conn_status = ConnectedTo(handles[ser].port)
                    /\ btn_connect = "Disconnect"
  /\ ~IsConnected => /\ conn_status = Disconnected
                     /\ btn_connect = "Connect"

\* a connect click failed after an earlier connect and disconnect
C19_Witness ==
  /\ op[GuiThread] = "connect"
  /\ ret[GuiThread] = Raised(OpenError)
  /\ last_box = FailedBox
  /\ opens >= 1
  /\ conn_status = Disconnected

\* ---------------------------------------------------------------------
\* C20: a tick leaves live_x and live_y equally long, at most N long, live_x
\* holding consecutive sample indices that end at sample_index - 1,
\* sample_index one larger than before, and the next tick scheduled.
C20_TickKeepsWindow ==
  [][tick_label' # tick_label =>
       /\ Len(live_x') = Len(live_y')
       /\ Len(live_x') <= N
       /\ Len(live_x') >= 1
       /\ \A i \in 1..Len(live_x') :
            live_x'[i] = sample_index' - 1 - (Len(live_x') - i)
       /\ sample_index' = sample_index + 1
       /\ ticks_pending' = 1]_vars

\* more than N ticks have run and the window has been cut to N samples
C20_Witness ==
  /\ sample_index > N + 2
  /\ Len(live_x) = N
  /\ live_x[1] = sample_index - N

====
